---- MODULE Spec2Model ----
(***************************************************************************)
(* State-machine model of train_model_cuda.py: a sequential script that    *)
(* configures the GPU, loads MNIST, builds a CNN (optionally with a data   *)
(* augmentation block), fits it under three callbacks, evaluates it,       *)
(* reloads the best checkpoint, saves it and converts it for the web.      *)
(*                                                                         *)
(* Numbers: validation accuracies, validation losses and test accuracies   *)
(* are levels on small integer grids; learning rates are integers in units *)
(* of 1e-10 (0.001 = 10000000, 0.00001 = 100000), so that every halving    *)
(* the run can perform is exact.                                           *)
(***************************************************************************)
EXTENDS Integers, Sequences, FiniteSets, TLC

VARIABLES
    pc,                \* the statement block the script is at
    gpus,              \* number of physical GPUs list_physical_devices reports
    visible_gpus,      \* number of GPUs visible to the framework
    memory_growth,     \* number of GPUs on which memory growth was enabled
    data_augmentation, \* "unset" | "pipeline" | "None"
    use_augmentation,  \* "unset" | "True" | "False"
    layers,            \* the list handed to keras.Sequential
    model,             \* the object bound to the name `model`
    lr,                \* the optimizer's learning rate, units of 1e-10
    rlr,               \* ReduceLROnPlateau state
    es,                \* EarlyStopping state
    mc,                \* ModelCheckpoint state
    stop_training,     \* model.stop_training
    epoch,             \* number of epochs completed by fit
    history,           \* summary of the validation accuracies of the epochs run
    plateau,           \* summary of the validation losses of the epochs run
    files,             \* the three output paths on disk
    test_acc,          \* the object bound to the name `test_acc`
    final_accuracy,    \* what the 'Final accuracy' line printed
    log,               \* the kinds of messages printed so far
    caught,            \* exceptions handled by an except clause
    raised,            \* the exception that terminated the process, if any
    trace              \* the blocks entered so far, in order

vars == <<pc, gpus, visible_gpus, memory_growth, data_augmentation, use_augmentation,
          layers, model, lr, rlr, es, mc, stop_training, epoch, history, plateau, files,
          test_acc, final_accuracy, log, caught, raised, trace>>

(***************************************************************************)
(* Bounds of the model.                                                    *)
(***************************************************************************)
MaxGpus == 1
MaxAcc == 3
MaxLoss == 1
MaxTestAcc == 1

(***************************************************************************)
(* Constants of the program.                                               *)
(***************************************************************************)
InitialLr == 10000000
FactorTenths == 5
RlrPatience == 3
MinLr == 100000
EsPatience == 8
Epochs == 30

ValAccs == 0 .. MaxAcc
ValLosses == 0 .. MaxLoss
TestAccs == 0 .. MaxTestAcc

\* The initial `best` of a max-mode monitor (-inf) and of a min-mode monitor (+inf).
NegInf == 0 - 1
PosInf == MaxLoss + 1

Max(a, b) == IF a >= b THEN a ELSE b
Min(a, b) == IF a <= b THEN a ELSE b

(***************************************************************************)
(* Exceptions.  Every kind a library call raises here derives from         *)
(* Exception; the except clauses differ in the class they name.            *)
(***************************************************************************)
ExcKinds == {"RuntimeError", "ValueError", "ImportError", "OSError", "OpError"}

IsInstance(e, cls) ==
    \/ e = cls
    \/ cls = "Exception" /\ e \in ExcKinds

\* What the call(s) of a block can raise.
Raises(stage) ==
    CASE stage = "gpu"           -> {"RuntimeError", "ValueError"}
      [] stage = "load"          -> {"OSError"}
      [] stage = "augment"       -> {"ValueError"}
      [] stage = "build"         -> {"ValueError"}
      [] stage = "fit"           -> {"OpError"}
      [] stage = "evaluate"      -> {"OpError"}
      [] stage = "load_best"     -> {"OSError"}
      [] stage = "evaluate_best" -> {"OpError"}
      [] stage = "save"          -> {"OSError"}
      [] stage = "convert"       -> {"ImportError", "ValueError"}
      [] OTHER                   -> {}

\* Variant: only the first except clause of the conversion block exists.
CatchesImportErrorOnly(stage, e) ==
    CASE stage = "gpu"     -> IsInstance(e, "RuntimeError")
      [] stage = "augment" -> IsInstance(e, "Exception")
      [] stage = "convert" -> IsInstance(e, "ImportError")
      [] OTHER             -> FALSE

\* Variant: model.save is wrapped in a handler of its own.
CatchesSaveToo(stage, e) ==
    CASE stage = "gpu"     -> IsInstance(e, "RuntimeError")
      [] stage = "augment" -> IsInstance(e, "Exception")
      [] stage = "convert" -> IsInstance(e, "ImportError") \/ IsInstance(e, "Exception")
      [] stage = "save"    -> IsInstance(e, "Exception")
      [] OTHER             -> FALSE

\* The except clauses of the script: which block's exceptions are handled.
Catches(stage, e) ==
    CASE stage = "gpu"     -> IsInstance(e, "RuntimeError")
      [] stage = "augment" -> IsInstance(e, "Exception")
      [] stage = "convert" -> IsInstance(e, "ImportError") \/ IsInstance(e, "Exception")
      [] OTHER             -> FALSE

(***************************************************************************)
(* The order of the script's blocks.                                       *)
(***************************************************************************)
Blocks == <<"gpu", "load", "augment", "build", "fit", "evaluate", "load_best",
            "evaluate_best", "save", "convert", "banner">>

IndexOf(s) == CHOOSE i \in 1 .. Len(Blocks) : Blocks[i] = s

\* Variant: the second evaluation leads back to the first.
NextStageRepeatsEvaluation(s) ==
    IF s = "banner" THEN "done"
    ELSE IF s = "evaluate_best" THEN "evaluate"
    ELSE Blocks[IndexOf(s) + 1]

NextStage(s) == IF s = "banner" THEN "done" ELSE Blocks[IndexOf(s) + 1]

(***************************************************************************)
(* Values.                                                                 *)
(***************************************************************************)
NoModel == [origin |-> "none", epoch |-> 0, run |-> "none"]
\* A path's content: who wrote it (this run, an earlier run, nobody), and the
\* weights it holds (the epoch they come from and the run that trained them).
Absent == [written |-> "none", epoch |-> 0, run |-> "none"]
Stale == [written |-> "earlier", epoch |-> 0, run |-> "earlier"]
FileOf(mdl) == [written |-> "this", epoch |-> mdl.epoch, run |-> mdl.run]
NoExc == [stage |-> "none", exc |-> "none"]
NoAcc == [origin |-> "none", epoch |-> 0, run |-> "none", acc |-> 0]

ConvBlocks == <<"Conv2D_32", "BatchNormalization", "Conv2D_32", "BatchNormalization",
                "MaxPooling2D", "Dropout_25",
                "Conv2D_64", "BatchNormalization", "Conv2D_64", "BatchNormalization",
                "MaxPooling2D", "Dropout_25",
                "Conv2D_128", "BatchNormalization", "MaxPooling2D", "Dropout_25",
                "Flatten", "Dense_256", "BatchNormalization", "Dropout_50",
                "Dense_128", "BatchNormalization", "Dropout_50", "Dense_10">>

\* Variant: the augmentation block is appended without looking at the flags.
AssembleLayersAlways(use, aug) ==
    Append(<<"Input">>, "data_augmentation") \o ConvBlocks

\* layers = [Input]; append data_augmentation if available; extend with the blocks.
AssembleLayers(use, aug) ==
    LET first == <<"Input">>
        second == IF use = "True" /\ aug # "None"
                  THEN Append(first, "data_augmentation")
                  ELSE first
    IN  second \o ConvBlocks

(***************************************************************************)
(* The callbacks, as configured by the script.  Each operator is one       *)
(* callback's on_epoch_end.                                                *)
(***************************************************************************)
\* Variant: no min_lr.
ReduceLrStepNoFloor(r, cur_lr, loss) ==
    IF loss < r.best
    THEN [rlr |-> [best |-> loss, wait |-> 0], lr |-> cur_lr]
    ELSE IF r.wait + 1 >= RlrPatience
         THEN [rlr |-> [best |-> r.best, wait |-> 0],
               lr |-> (cur_lr * FactorTenths) \div 10]
         ELSE [rlr |-> [best |-> r.best, wait |-> r.wait + 1], lr |-> cur_lr]

\* ReduceLROnPlateau(monitor='val_loss', factor=0.5, patience=3, min_lr=0.00001)
ReduceLrStep(r, cur_lr, loss) ==
    IF loss < r.best
    THEN [rlr |-> [best |-> loss, wait |-> 0], lr |-> cur_lr]
    ELSE IF r.wait + 1 >= RlrPatience /\ cur_lr > MinLr
         THEN [rlr |-> [best |-> r.best, wait |-> 0],
               lr |-> Max((cur_lr * FactorTenths) \div 10, MinLr)]
         ELSE [rlr |-> [best |-> r.best, wait |-> r.wait + 1], lr |-> cur_lr]

\* Variant: stops one epoch late.
EarlyStoppingStepLate(e, n, acc) ==
    IF acc > e.best
    THEN [es |-> [best |-> acc, wait |-> 0, best_epoch |-> n], stop |-> FALSE]
    ELSE [es |-> [best |-> e.best, wait |-> e.wait + 1, best_epoch |-> e.best_epoch],
          stop |-> e.wait + 1 > EsPatience]

\* EarlyStopping(monitor='val_accuracy', patience=8, restore_best_weights=True)
EarlyStoppingStep(e, n, acc) ==
    IF acc > e.best
    THEN [es |-> [best |-> acc, wait |-> 0, best_epoch |-> n], stop |-> FALSE]
    ELSE [es |-> [best |-> e.best, wait |-> e.wait + 1, best_epoch |-> e.best_epoch],
          stop |-> e.wait + 1 >= EsPatience]

\* ModelCheckpoint('best_mnist_model.h5', monitor='val_accuracy', save_best_only=True)
CheckpointInitialBest == NegInf

\* Variant: a tie with the best value also overwrites the file.
CheckpointImprovedOrEqual(m, acc) == acc >= m.best

\* Variant: the monitor is compared as a loss (lower is better).
CheckpointImprovedMinMode(m, acc) == acc < m.best

CheckpointImproved(m, acc) == acc > m.best

CheckpointStep(m, f, mdl, acc) ==
    IF CheckpointImproved(m, acc)
    THEN [mc |-> [best |-> acc],
          files |-> [f EXCEPT !.ckpt = FileOf(mdl)]]
    ELSE [mc |-> m, files |-> f]

\* The validation accuracies of the epochs run so far, summarised: how many
\* epochs, the highest accuracy, and the first epoch that reached it (which is
\* the last epoch that improved on all the epochs before it).
RecordEpoch(h, n, acc) ==
    [epochs |-> n,
     best_val_acc |-> Max(h.best_val_acc, acc),
     best_epoch |-> IF acc > h.best_val_acc THEN n ELSE h.best_epoch]

\* The validation losses of the epochs run so far, summarised: the lowest loss,
\* and the number of epochs in a row, up to now, whose loss was not below the
\* loss of every epoch before them, counted up to the patience of the
\* learning-rate schedule (RlrPatience stands for "RlrPatience or more").
RecordLoss(p, loss) ==
    [min_val_loss |-> Min(p.min_val_loss, loss),
     stall |-> IF loss < p.min_val_loss THEN 0 ELSE Min(p.stall + 1, RlrPatience)]

(***************************************************************************)
(* Steps shared by the actions.                                            *)
(***************************************************************************)
RlrInitial == [best |-> PosInf, wait |-> 0]
EsInitial == [best |-> NegInf, wait |-> 0, best_epoch |-> 0]
McInitial == [best |-> CheckpointInitialBest]
PlateauInitial == [min_val_loss |-> PosInf, stall |-> 0]
HistoryInitial == [epochs |-> 0, best_val_acc |-> NegInf, best_epoch |-> 0]

gpuVars == <<visible_gpus, memory_growth>>
augVars == <<data_augmentation, use_augmentation>>
netVars == <<layers, model>>
loopVars == <<lr, rlr, es, mc, plateau>>
fitVars == <<lr, rlr, es, mc, plateau, stop_training, epoch, history>>

Outcomes(s) == {"ok"} \cup Raises(s)

Advance(s) ==
    /\ pc' = NextStage(s)
    /\ trace' = IF NextStage(s) = "done" THEN trace ELSE Append(trace, NextStage(s))

Handled(s, e) == caught' = caught \cup {[stage |-> s, exc |-> e]}

\* An exception no except clause handles ends the process: what it printed and
\* wrote stays, what it held in memory is gone.
Crash(s, e, printed) ==
    /\ pc' = "crashed"
    /\ raised' = [stage |-> s, exc |-> e]
    /\ log' = log \cup printed
    /\ visible_gpus' = gpus
    /\ memory_growth' = 0
    /\ data_augmentation' = "unset"
    /\ use_augmentation' = "unset"
    /\ layers' = <<>>
    /\ model' = NoModel
    /\ lr' = 0
    /\ rlr' = RlrInitial
    /\ es' = EsInitial
    /\ mc' = McInitial
    /\ plateau' = PlateauInitial
    /\ stop_training' = FALSE
    /\ epoch' = 0
    /\ history' = HistoryInitial
    /\ test_acc' = NoAcc
    /\ UNCHANGED <<gpus, files, final_accuracy, caught, trace>>

\* An exception handled where the block has no statements of its own to run in
\* the handler: the script goes on with the next block.
Swallowed(s, e, printed) ==
    /\ Handled(s, e)
    /\ Advance(s)
    /\ log' = log \cup printed
    /\ UNCHANGED <<gpus, gpuVars, augVars, netVars, fitVars, files, test_acc,
                   final_accuracy, raised>>

(***************************************************************************)
(* Initial state: the interpreter is about to run the first statement.     *)
(* The machine has some number of GPUs, and an earlier run may have left   *)
(* its outputs at the same relative paths.                                 *)
(***************************************************************************)
Init ==
    /\ pc = "gpu"
    /\ gpus \in 0 .. MaxGpus
    /\ visible_gpus = gpus
    /\ memory_growth = 0
    /\ data_augmentation = "unset"
    /\ use_augmentation = "unset"
    /\ layers = <<>>
    /\ model = NoModel
    /\ lr = 0
    /\ rlr = RlrInitial
    /\ es = EsInitial
    /\ mc = McInitial
    /\ plateau = PlateauInitial
    /\ stop_training = FALSE
    /\ epoch = 0
    /\ history = HistoryInitial
    /\ \E old \in {Absent, Stale} :
           files = [ckpt |-> old, saved |-> old, web |-> old]
    /\ test_acc = NoAcc
    /\ final_accuracy = NoAcc
    /\ log = {}
    /\ caught = {}
    /\ raised = NoExc
    /\ trace = <<"gpu">>

(***************************************************************************)
(* Lines 19-39: GPU configuration.                                         *)
(***************************************************************************)
ConfigureGpu ==
    /\ pc = "gpu"
    /\ IF gpus = 0
       THEN /\ log' = log \cup {"no_gpu"}
            /\ Advance("gpu")
            /\ UNCHANGED <<gpus, gpuVars, augVars, netVars, fitVars, files, test_acc,
                           final_accuracy, caught, raised>>
       ELSE \E out \in Outcomes("gpu") :
              IF out = "ok"
              THEN /\ memory_growth' = gpus
                   /\ log' = log \cup {"gpu_found"}
                   /\ Advance("gpu")
                   /\ UNCHANGED <<gpus, visible_gpus, augVars, netVars, fitVars, files,
                                  test_acc, final_accuracy, caught, raised>>
              ELSE IF Catches("gpu", out)
              THEN /\ memory_growth' \in 0 .. gpus - 1
                   /\ visible_gpus' = 0
                   /\ log' = log \cup {"gpu_error", "falling_back_to_cpu"}
                   /\ Handled("gpu", out)
                   /\ Advance("gpu")
                   /\ UNCHANGED <<gpus, augVars, netVars, fitVars, files, test_acc,
                                  final_accuracy, raised>>
              ELSE Crash("gpu", out, {})

(***************************************************************************)
(* Lines 41-55: load and preprocess MNIST.                                 *)
(***************************************************************************)
LoadData ==
    /\ pc = "load"
    /\ \E out \in Outcomes("load") :
         IF out = "ok"
         THEN /\ log' = log \cup {"loading"}
              /\ Advance("load")
              /\ UNCHANGED <<gpus, gpuVars, augVars, netVars, fitVars, files, test_acc,
                             final_accuracy, caught, raised>>
         ELSE IF Catches("load", out)
         THEN Swallowed("load", out, {"loading"})
         ELSE Crash("load", out, {"loading"})

(***************************************************************************)
(* Lines 57-71: the data augmentation pipeline.                            *)
(***************************************************************************)
BuildAugmentation ==
    /\ pc = "augment"
    /\ \E out \in Outcomes("augment") :
         IF out = "ok"
         THEN /\ data_augmentation' = "pipeline"
              /\ use_augmentation' = "True"
              /\ log' = log \cup {"augmentation_enabled"}
              /\ Advance("augment")
              /\ UNCHANGED <<gpus, gpuVars, netVars, fitVars, files, test_acc,
                             final_accuracy, caught, raised>>
         ELSE IF Catches("augment", out)
         THEN /\ data_augmentation' = "None"
              /\ use_augmentation' = "False"
              /\ log' = log \cup {"augmentation_failed"}
              /\ Handled("augment", out)
              /\ Advance("augment")
              /\ UNCHANGED <<gpus, gpuVars, netVars, fitVars, files, test_acc,
                             final_accuracy, raised>>
         ELSE Crash("augment", out, {})

(***************************************************************************)
(* Lines 73-150: assemble the layers, build and compile the model, create  *)
(* the callbacks.                                                          *)
(***************************************************************************)
BuildModel ==
    /\ pc = "build"
    /\ \E out \in Outcomes("build") :
         IF out = "ok"
         THEN /\ layers' = AssembleLayers(use_augmentation, data_augmentation)
              /\ model' = [origin |-> "fit", epoch |-> 0, run |-> "this"]
              /\ lr' = InitialLr
              /\ rlr' = RlrInitial
              /\ es' = EsInitial
              /\ mc' = McInitial
              /\ log' = log \cup {"creating_model"}
              /\ Advance("build")
              /\ UNCHANGED <<gpus, gpuVars, augVars, plateau, stop_training, epoch,
                             history, files, test_acc, final_accuracy, caught, raised>>
         ELSE IF Catches("build", out)
         THEN Swallowed("build", out, {"creating_model"})
         ELSE Crash("build", out, {"creating_model"})

(***************************************************************************)
(* Lines 157-164: model.fit.  One step is one epoch followed by the        *)
(* callbacks' on_epoch_end, in the order of the callbacks list.            *)
(***************************************************************************)
FitEpoch ==
    /\ pc = "fit"
    /\ ~stop_training
    /\ epoch < Epochs
    /\ \E out \in Outcomes("fit") :
         IF out = "ok"
         THEN \E acc \in ValAccs, loss \in ValLosses :
              LET n == epoch + 1
                  r == ReduceLrStep(rlr, lr, loss)
                  e == EarlyStoppingStep(es, n, acc)
                  trained == [origin |-> "fit", epoch |-> n, run |-> "this"]
                  kept == IF e.stop
                          THEN [trained EXCEPT !.epoch = e.es.best_epoch]
                          ELSE trained
                  c == CheckpointStep(mc, files, kept, acc)
              IN  /\ epoch' = n
                  /\ rlr' = r.rlr
                  /\ lr' = r.lr
                  /\ es' = e.es
                  /\ stop_training' = e.stop
                  /\ model' = kept
                  /\ mc' = c.mc
                  /\ files' = c.files
                  /\ history' = RecordEpoch(history, n, acc)
                  /\ plateau' = RecordLoss(plateau, loss)
                  /\ UNCHANGED <<pc, trace, gpus, gpuVars, augVars, layers, test_acc,
                                 final_accuracy, log, caught, raised>>
         ELSE IF Catches("fit", out)
         THEN Swallowed("fit", out, {})
         ELSE Crash("fit", out, {})

\* fit returns: the epochs are used up or a callback set stop_training.  Whether
\* the best weights are also restored when training was not stopped early depends
\* on the framework version.  Nothing reads the optimizer or the callbacks after
\* fit, and the model stops tracking them here.
FitReturn ==
    /\ pc = "fit"
    /\ stop_training \/ epoch = Epochs
    /\ \E restore \in BOOLEAN :
         model' = IF restore THEN [model EXCEPT !.epoch = es.best_epoch] ELSE model
    /\ lr' = 0
    /\ rlr' = RlrInitial
    /\ es' = EsInitial
    /\ mc' = McInitial
    /\ plateau' = PlateauInitial
    /\ Advance("fit")
    /\ UNCHANGED <<gpus, gpuVars, augVars, layers, stop_training, epoch, history, files,
                   test_acc, final_accuracy, log, caught, raised>>

(***************************************************************************)
(* Lines 166-172: evaluate the model fit left in memory.                   *)
(***************************************************************************)
EvaluationOf(mdl, a) ==
    [origin |-> mdl.origin, epoch |-> mdl.epoch, run |-> mdl.run, acc |-> a]

Evaluate ==
    /\ pc = "evaluate"
    /\ \E out \in Outcomes("evaluate") :
         IF out = "ok"
         THEN /\ \E a \in TestAccs : test_acc' = EvaluationOf(model, a)
              /\ log' = log \cup {"test_accuracy"}
              /\ Advance("evaluate")
              /\ UNCHANGED <<gpus, gpuVars, augVars, netVars, fitVars, files,
                             final_accuracy, caught, raised>>
         ELSE IF Catches("evaluate", out)
         THEN Swallowed("evaluate", out, {})
         ELSE Crash("evaluate", out, {})

(***************************************************************************)
(* Line 175: rebind `model` to the model read from the checkpoint file.    *)
(* Reading a path that does not exist raises.                              *)
(***************************************************************************)
LoadModel(f) == [origin |-> "checkpoint", epoch |-> f.epoch, run |-> f.run]

LoadBest ==
    /\ pc = "load_best"
    /\ \E out \in IF files.ckpt.written = "none"
                  THEN Raises("load_best")
                  ELSE Outcomes("load_best") :
         IF out = "ok"
         THEN /\ model' = LoadModel(files.ckpt)
              /\ Advance("load_best")
              /\ UNCHANGED <<gpus, gpuVars, augVars, layers, fitVars, files, test_acc,
                             final_accuracy, log, caught, raised>>
         ELSE IF Catches("load_best", out)
         THEN Swallowed("load_best", out, {})
         ELSE Crash("load_best", out, {})

(***************************************************************************)
(* Lines 176-177: evaluate the reloaded model, rebinding `test_acc`.       *)
(***************************************************************************)
EvaluateBest ==
    /\ pc = "evaluate_best"
    /\ \E out \in Outcomes("evaluate_best") :
         IF out = "ok"
         THEN /\ \E a \in TestAccs : test_acc' = EvaluationOf(model, a)
              /\ log' = log \cup {"best_model_accuracy"}
              /\ Advance("evaluate_best")
              /\ UNCHANGED <<gpus, gpuVars, augVars, netVars, fitVars, files,
                             final_accuracy, caught, raised>>
         ELSE IF Catches("evaluate_best", out)
         THEN Swallowed("evaluate_best", out, {})
         ELSE Crash("evaluate_best", out, {})

(***************************************************************************)
(* Lines 179-183: os.makedirs('models') and model.save.                    *)
(***************************************************************************)
SaveModel ==
    /\ pc = "save"
    /\ \E out \in Outcomes("save") :
         IF out = "ok"
         THEN /\ files' = [files EXCEPT !.saved = FileOf(model)]
              /\ log' = log \cup {"saving", "model_saved"}
              /\ Advance("save")
              /\ UNCHANGED <<gpus, gpuVars, augVars, netVars, fitVars, test_acc,
                             final_accuracy, caught, raised>>
         ELSE IF Catches("save", out)
         THEN Swallowed("save", out, {"saving"})
         ELSE Crash("save", out, {"saving"})

(***************************************************************************)
(* Lines 185-206: conversion to the web format, and its two except         *)
(* clauses.  An ImportError is raised by the import, before anything is    *)
(* written; save_keras_model may fail before or after it started writing.  *)
(***************************************************************************)
ConvertHandlerLog(e) ==
    IF IsInstance(e, "ImportError")
    THEN {"tfjs_not_found", "manual_instruction"}
    ELSE {"conversion_failed", "manual_instruction", "use_saved_file"}

Partial(mdl) == [written |-> "partial", epoch |-> mdl.epoch, run |-> mdl.run]

Convert ==
    /\ pc = "convert"
    /\ \E out \in Outcomes("convert") :
         IF out = "ok"
         THEN /\ files' = [files EXCEPT !.web = FileOf(model)]
              /\ log' = log \cup {"converting", "converted"}
              /\ Advance("convert")
              /\ UNCHANGED <<gpus, gpuVars, augVars, netVars, fitVars, test_acc,
                             final_accuracy, caught, raised>>
         ELSE IF Catches("convert", out)
         THEN /\ \E started \in BOOLEAN :
                   files' = IF started /\ ~IsInstance(out, "ImportError")
                            THEN [files EXCEPT !.web = Partial(model)]
                            ELSE files
              /\ log' = log \cup {"converting"} \cup ConvertHandlerLog(out)
              /\ Handled("convert", out)
              /\ Advance("convert")
              /\ UNCHANGED <<gpus, gpuVars, augVars, netVars, fitVars, test_acc,
                             final_accuracy, raised>>
         ELSE Crash("convert", out, {"converting"})

(***************************************************************************)
(* Lines 208-219: the closing report.                                      *)
(***************************************************************************)
Banner ==
    /\ pc = "banner"
    /\ log' = log \cup {"training_complete", "files_created"}
    /\ final_accuracy' = test_acc
    /\ Advance("banner")
    /\ UNCHANGED <<gpus, gpuVars, augVars, netVars, fitVars, files, test_acc,
                   caught, raised>>

Next ==
    \/ ConfigureGpu
    \/ LoadData
    \/ BuildAugmentation
    \/ BuildModel
    \/ FitEpoch
    \/ FitReturn
    \/ Evaluate
    \/ LoadBest
    \/ EvaluateBest
    \/ SaveModel
    \/ Convert
    \/ Banner

Spec == Init /\ [][Next]_vars

(***************************************************************************)
(* Vocabulary of the properties.                                           *)
(***************************************************************************)
Entered(s) == \E i \in 1 .. Len(trace) : trace[i] = s

BannerPrinted == "training_complete" \in log

CaughtAt(s) == \E c \in caught : c.stage = s

IsPrefix(a, b) == Len(a) <= Len(b) /\ a = SubSeq(b, 1, Len(a))

HasLayer(l) == \E i \in 1 .. Len(layers) : layers[i] = l

Guards == {"gpu", "augment", "convert"}

\* The process has not been terminated by an exception: its variables exist.
Alive == pc # "crashed"

(***************************************************************************)
(* C1.  Whenever the 'TRAINING COMPLETE' banner has been printed, the      *)
(* checkpoint file, models/mnist_model.h5 and the static/model directory   *)
(* have all been written by this run: every file listed under 'Files       *)
(* created' exists.                                                        *)
(***************************************************************************)
C1_FilesCreatedAtBanner ==
    BannerPrinted =>
        /\ files.ckpt.written = "this"
        /\ files.saved.written = "this"
        /\ files.web.written = "this"

(***************************************************************************)
(* C2.  A failure of the conversion step (the import failing, or           *)
(* save_keras_model raising) never terminates the process: it is always    *)
(* handled, the manual tensorflowjs_converter instruction is printed, the  *)
(* only statement left to run is the banner, which is printed before the   *)
(* script ends, and models/mnist_model.h5 is still what model.save wrote.  *)
(***************************************************************************)
C2_ConversionFailureDoesNotAbort ==
    /\ raised.stage # "convert"
    /\ CaughtAt("convert") =>
           /\ "manual_instruction" \in log
           /\ pc \in {"banner", "done"}
           /\ pc = "banner" => ENABLED Banner
           /\ pc = "done" => BannerPrinted
           /\ files.saved.written = "this"
           /\ files.saved = FileOf(model)

C2_Witness ==
    /\ pc = "done"
    /\ [stage |-> "convert", exc |-> "ValueError"] \in caught
    /\ files.web.written = "partial"
    /\ files.saved.written = "this"

(***************************************************************************)
(* C3.  Whenever GPU configuration fails, whatever is raised while         *)
(* enabling memory growth, the script falls back to CPU (all GPUs hidden)  *)
(* and goes on to load the dataset instead of terminating; with no GPU     *)
(* detected nothing is configured and the pipeline proceeds on CPU.        *)
(***************************************************************************)
C3_GpuFailureFallsBack ==
    /\ raised.stage # "gpu"
    /\ CaughtAt("gpu") => Entered("load") /\ (Alive => visible_gpus = 0)
    /\ gpus = 0 /\ pc # "gpu" =>
           /\ memory_growth = 0
           /\ ~CaughtAt("gpu")
           /\ Entered("load")

(***************************************************************************)
(* C4.  A failure to construct the augmentation pipeline is always         *)
(* handled: use_augmentation is False, data_augmentation is None, the      *)
(* script goes on to build the model, and the model has no augmentation    *)
(* layer.  The augmentation layer is in the model, right after the input   *)
(* layer and before the first convolution, exactly when the construction   *)
(* succeeded.                                                              *)
(***************************************************************************)
C4_AugmentationFallback ==
    /\ raised.stage # "augment"
    /\ CaughtAt("augment") =>
           /\ Entered("build")
           /\ Alive => use_augmentation = "False" /\ data_augmentation = "None"
    /\ layers # <<>> =>
           /\ HasLayer("data_augmentation") <=> ~CaughtAt("augment")
           /\ HasLayer("data_augmentation") <=> "augmentation_enabled" \in log
           /\ layers[1] = "Input"
           /\ IF HasLayer("data_augmentation")
              THEN /\ layers[2] = "data_augmentation"
                   /\ layers[3] = "Conv2D_32"
                   /\ Len(layers) = Len(ConvBlocks) + 2
              ELSE /\ layers[2] = "Conv2D_32"
                   /\ Len(layers) = Len(ConvBlocks) + 1
    /\ Alive /\ Entered("fit") => layers # <<>>

C4_Witness ==
    /\ CaughtAt("augment")
    /\ pc = "fit"
    /\ epoch > 0
    /\ ~HasLayer("data_augmentation")

(***************************************************************************)
(* C5.  As stated: the stages run in the order load data, build, fit,      *)
(* checkpoint the best weights, evaluate, persist, convert, each entered   *)
(* at most once and none starting before the one before it has finished;   *)
(* so the checkpoint is written only once fit has ended.                   *)
(***************************************************************************)
C5_CheckpointAfterFit ==
    /\ IsPrefix(trace, Blocks)
    /\ files.ckpt.written = "this" => pc # "fit"

(***************************************************************************)
(* C5, amended.  The blocks run in the order GPU configuration, load data, *)
(* build (augmentation, model), fit, evaluate, reload the best checkpoint, *)
(* evaluate it, persist, convert, report; each is entered at most once,    *)
(* the script is always in the block entered last, and no block is entered *)
(* again.  Checkpointing is not a stage of its own: the checkpoint file is *)
(* written only inside fit, whenever an epoch improves the validation      *)
(* accuracy, and never after fit has ended.                                *)
(***************************************************************************)
C5_Order ==
    /\ IsPrefix(trace, Blocks)
    /\ Len(trace) >= 1
    /\ pc \in {"done", "crashed"} \/ pc = trace[Len(trace)]
    /\ pc = "done" => trace = Blocks
    /\ files.ckpt.written = "this" => Entered("fit")
    /\ files.saved.written = "this" => Entered("save")
    /\ files.web.written \in {"this", "partial"} => Entered("convert")
    /\ test_acc # NoAcc => Entered("evaluate")
    /\ epoch > 0 => Entered("fit")
    /\ layers # <<>> => Entered("build")

C5_LinearPipeline ==
    /\ []C5_Order
    /\ [][files'.ckpt # files.ckpt => pc = "fit" /\ pc' = "fit" /\ epoch' = epoch + 1]_vars
    /\ [][pc' # pc => pc' = "crashed" \/ pc' = NextStage(pc)]_vars

C5_Witness ==
    /\ pc = "done"
    /\ trace = Blocks
    /\ files.ckpt.epoch > 1
    /\ files.web.written = "this"

(***************************************************************************)
(* C6.  Only the GPU, augmentation and conversion blocks ever handle an    *)
(* exception.  An exception raised in any other block terminates the       *)
(* process there: no later block is entered, nothing more is written and   *)
(* the banner is never printed.                                            *)
(***************************************************************************)
C6_OnlyThreeGuards ==
    /\ \A c \in caught : c.stage \in Guards
    /\ pc = "crashed" <=> raised # NoExc
    /\ pc = "crashed" =>
           /\ ~ENABLED Next
           /\ trace[Len(trace)] = raised.stage
           /\ ~BannerPrinted
           /\ final_accuracy = NoAcc
    /\ pc = "crashed" /\ raised.stage \notin Guards =>
           /\ raised.stage \in {"load", "build", "fit", "evaluate", "load_best",
                                "evaluate_best", "save"}
           /\ files.web.written \notin {"this", "partial"}
           /\ raised.stage # "save" => files.saved.written # "this"

C6_Witness ==
    /\ pc = "crashed"
    /\ raised.stage = "save"
    /\ files.ckpt.written = "this"

(***************************************************************************)
(* C7.  What is saved to models/mnist_model.h5, converted and reported is  *)
(* the model read back from the checkpoint file: its weights are those of  *)
(* the first epoch that reached the highest validation accuracy of the     *)
(* run, and 'Final accuracy' is the accuracy measured on that model by the *)
(* second evaluation.                                                      *)
(***************************************************************************)
C7_BestCheckpointPersisted ==
    /\ Alive /\ Entered("evaluate_best") =>
           /\ model.origin = "checkpoint"
           /\ model = LoadModel(files.ckpt)
           /\ model.run = "this"
           /\ model.epoch = history.best_epoch
           /\ model.epoch >= 1
    /\ files.saved.written = "this" => files.saved = FileOf(model)
    /\ files.web.written = "this" => files.web = FileOf(model)
    /\ Alive /\ Entered("save") =>
           /\ test_acc.origin = "checkpoint"
           /\ test_acc.epoch = history.best_epoch
           /\ test_acc.run = "this"
    /\ pc = "done" => final_accuracy = test_acc

C7_Witness ==
    /\ pc = "done"
    /\ files.saved.written = "this"
    /\ files.web.written = "this"
    /\ history.epochs = Epochs
    /\ files.saved.epoch < history.epochs
    /\ ~stop_training

(***************************************************************************)
(* C8.  fit runs at most 30 epochs and is stopped earlier exactly when the *)
(* validation accuracy has not improved on its best value for 8 epochs in  *)
(* a row; when fit returns, the number of epochs run is the smaller of 30  *)
(* and (last improving epoch, counted from 1) + 8.  Training terminates:   *)
(* while in fit a step is always possible, and every step of fit completes *)
(* one more of the at most 30 epochs, returns to the evaluation (only once *)
(* the epochs are used up or training was stopped), or raises.             *)
(***************************************************************************)
C8_EpochCount ==
    /\ epoch <= Epochs
    /\ history.epochs = epoch
    /\ epoch > 0 => history.best_epoch \in 1 .. epoch
    /\ stop_training <=> epoch - history.best_epoch >= EsPatience
    /\ pc = "fit" =>
           IF stop_training \/ epoch = Epochs
           THEN ENABLED FitReturn /\ ~ENABLED FitEpoch
           ELSE ENABLED FitEpoch /\ ~ENABLED FitReturn
    /\ Alive /\ Entered("evaluate") =>
           /\ epoch = Min(Epochs, history.best_epoch + EsPatience)
           /\ epoch >= 1

C8_TrainingTerminates ==
    /\ []C8_EpochCount
    /\ [][pc = "fit" =>
              \/ pc' = "fit" /\ epoch' = epoch + 1
              \/ pc' = "evaluate" /\ epoch' = epoch /\ (stop_training \/ epoch = Epochs)
              \/ pc' = "crashed" /\ raised'.stage = "fit"]_vars

C8_Witness ==
    /\ pc = "evaluate"
    /\ stop_training
    /\ history.best_epoch = 5
    /\ epoch = 13

(***************************************************************************)
(* C9.  During training the learning rate starts at 0.001, never grows,    *)
(* changes only by halving (or to the floor 0.00001 when half of it would  *)
(* be below the floor), changes only at the end of an epoch that is at     *)
(* least the third in a row without improvement of the validation loss,    *)
(* and always lies between 0.00001 and 0.001.                              *)
(***************************************************************************)
C9_LrRange ==
    /\ pc = "fit" => MinLr <= lr /\ lr <= InitialLr
    /\ pc = "fit" /\ epoch = 0 => lr = InitialLr

C10_NoStaleCheckpoint ==
    /\ epoch >= 1 => files.ckpt.written = "this" /\ files.ckpt.run = "this"
    /\ Alive /\ Entered("evaluate") => epoch >= 1
    /\ Entered("load_best") => files.ckpt.written = "this" /\ files.ckpt.run = "this"
    /\ model.run # "earlier"
    /\ test_acc.run # "earlier"
    /\ files.saved.written = "this" => files.saved.run = "this"
    /\ files.web.written \in {"this", "partial"} => files.web.run = "this"

C10_Witness ==
    /\ pc = "done"
    /\ files.web = Stale
    /\ files.ckpt.written = "this"
    /\ files.saved.run = "this"

====
